---- MODULE Spec2Model ----
(***************************************************************************)
(* Model of make.py (SVG -> cursor theme): the extraction parser           *)
(* (SVGLayerHandler), frame decomposition (get_animated_cursor_name) and   *)
(* the cursor config emitter (writeCursorConfig).                          *)
(*                                                                         *)
(* Coordinates are fixed-point numbers in tenths of a document unit, so    *)
(* that the 0.1 bias of the hotspot conversion is the integer 1.  Names    *)
(* are sequences of one-character strings, so that slicing, prefix tests   *)
(* and int() parsing are computed as Python computes them.                 *)
(***************************************************************************)
EXTENDS Integers, Sequences, FiniteSets, TLC

VARIABLES
  pc,               \* "parsing" | "done" | "fatal" | "crash" | "frame" | "emit" | "emitted"
  scale,            \* SVGHandler.scale[0] after startElement_svg
  layer_nests,      \* SVGLayerHandler._layer_nests
  layer_hotspots,   \* SVGLayerHandler._layer_hotspots
  translate,        \* SVGLayerHandler._translate
  svg_rects,        \* SVGLayerHandler.svg_rects, in insertion order
  size,             \* SVGLayerHandler.size (<<>> is None)
  slices_hidden,    \* SVGLayerHandler.slices_hidden
  hotspots_hidden,  \* SVGLayerHandler.hotspots_hidden
  warnings,         \* number of warn() calls
  gHist,            \* history: the <g> start/end events read so far
  authored,         \* history: per slice name, what its rectangle said
  rawHot,           \* history: per slice name, the centre of its circle
  lastEvent,        \* history: the event handled by the last step
  nMarkers,         \* history: number of rect/circle events read
  sliceName,        \* input of get_animated_cursor_name: self.name
  decomposed,       \* its result (sliceName, frame), <<>> before the call
  fps,              \* the global fps, as a fraction <<numerator, denominator>>
  emitQueue,        \* the slices the main loop has still to emit
  files,            \* hotspots_directory: file name -> lines
  lastWrite,        \* history: what the last writeCursorConfig did
  options,          \* the command line: force, clean, output_directory
  title,            \* SVGHandler.title after the parse (<<>> is None)
  themeDir,         \* the theme output directory: "absent" | "old" | "removed" | "new"
  workDirs,         \* pngs_directory and hotspots_directory exist
  filterMode,       \* SVGFilter.mode, the set of its flags
  dropshadow_id,    \* SVGFilter._dropshadow_id (<<>> is None)
  in_throwaway_layer_stack,  \* SVGFilter.in_throwaway_layer_stack
  downstream,       \* the events SVGFilter has passed to its downstream handler
  filterWarnings,   \* number of warn() calls of SVGFilter
  filterIn,         \* history: the events SVGFilter has read
  document,         \* the events of a document that is parsed twice
  firstRun          \* the outcome of its first parse, <<>> before it has ended

extractVars == <<scale, layer_nests, layer_hotspots, translate, svg_rects, size,
                 slices_hidden, hotspots_hidden, warnings, gHist, authored, rawHot,
                 lastEvent, nMarkers>>

frameVars == <<sliceName, decomposed>>

emitVars == <<fps, emitQueue, files, lastWrite>>

mainVars == <<options, title, themeDir, workDirs>>

filterVars == <<filterMode, dropshadow_id, in_throwaway_layer_stack, downstream,
                filterWarnings, filterIn>>

rerunVars == <<document, firstRun>>

vars == <<pc, extractVars, frameVars, emitVars, mainVars, filterVars, rerunVars>>

----------------------------------------------------------------------------
(* Bounds of the model *)

MaxGroups == 2

MaxMarkers == 2

----------------------------------------------------------------------------
(* Strings as sequences of characters *)

arrow == <<"a","r","r","o","w">>

busy == <<"b","u","s","y">>

ghost == <<"g","h","o","s","t">>

rect1 == <<"r","e","c","t","1">>

hotspotPrefix == <<"h","o","t","s","p","o","t",".">>

\* str.startswith
StartsWith(s, p) ==
  /\ Len(s) >= Len(p)
  /\ SubSeq(s, 1, Len(p)) = p

\* s[n:] for n >= 0
DropFirst(s, n) == SubSeq(s, n + 1, Len(s))

\* the empty mapping / a missing attribute set
NoAttrs == <<>>

\* attrs with one optional attribute k drawn from V
OptAttr(k, V) == {NoAttrs} \cup {k :> v : v \in V}

\* Python round() of the rational n/d, d > 0: nearest integer, ties to even
Round(n, d) ==
  LET q == n \div d
      r == n % d
  IN  IF 2 * r < d THEN q
      ELSE IF 2 * r > d THEN q + 1
      ELSE IF q % 2 = 0 THEN q ELSE q + 1

----------------------------------------------------------------------------
(* Documents: the events the SAX parser hands to the extraction parser *)

\* a coordinate attribute value: a number (in tenths) and a unit suffix
Coord(n, u) == [num |-> n, unit |-> u]

\* a transform attribute value: a list of transform functions
Translate(dx, dy) == <<[fn |-> "translate", args |-> <<dx, dy>>]>>

Transforms == {Translate(20, 30), Translate(100, 0)}

\* <g ...> start tags.  The extraction parser reads the filtered document,
\* in which SVGFilter has forced display:none into the style of the slices
\* and hotspots containers (lines 682-688).
LabelledLayers ==
  {[groupmode |-> "layer", label |-> l, style |-> <<"display:none">>] @@ a :
     l \in {"slices", "hotspots"},
     a \in OptAttr("transform", Transforms) \cup OptAttr("display", {"inline"})}

OtherGroups ==
  { [groupmode |-> "layer", label |-> "cursors"],
    [groupmode |-> "layer"],
    [label |-> "slices"],
    NoAttrs } 

GAttrs == LabelledLayers \cup OtherGroups

\* <rect ...> tags: named by label, or by id when there is no label.
\* arrow is drawn square or not; busy has its y in px, or its x in mm.
RectAttrs ==
  {[label |-> arrow, id |-> rect1, x |-> Coord(100, ""), y |-> Coord(100, ""),
    width |-> Coord(320, ""), height |-> Coord(h, "")] : h \in {320, 160}}
  \cup
  {[id |-> busy, x |-> Coord(500, u[1]), y |-> Coord(100, u[2]),
    width |-> Coord(320, ""), height |-> Coord(320, "")] :
     u \in {<<"", "px">>, <<"mm", "">>}}

\* <circle ...> tags: hotspots of arrow (inside and outside the slice, and
\* with a bad unit) and of busy, an orphan hotspot, and a circle that is no
\* hotspot
CircleAttrs ==
  {[label |-> hotspotPrefix \o arrow, id |-> rect1,
    cx |-> Coord(c[1], c[2]), cy |-> Coord(c[1], "")] :
     c \in {<<120, "">>, <<50, "">>, <<120, "%">>}}
  \cup
  { [id |-> hotspotPrefix \o busy, cx |-> Coord(520, ""), cy |-> Coord(120, "")],
    [label |-> hotspotPrefix \o ghost, id |-> rect1,
     cx |-> Coord(120, "mm"), cy |-> Coord(120, "")],
    [label |-> arrow, id |-> rect1, cx |-> Coord(120, ""), cy |-> Coord(120, "")]}

----------------------------------------------------------------------------
(* SVGHandler *)

Fatal == <<"fatal">>

Ok(v) == <<"ok", v>>

\* parseCoordinates taking every unit suffix for pixels
ParseCoordinatesAnyUnit(val, sc, viewBox) ==
  Ok(IF viewBox /\ sc # <<>> THEN sc[1] * val.num ELSE val.num)

\* SVGHandler.parseCoordinates: the value in pixels (tenths), or fatalError
parseCoordinates(val, sc, viewBox) ==
  LET scaled(n) == IF viewBox /\ sc # <<>> THEN sc[1] * n ELSE n
  IN  IF val.unit = "px" THEN Ok(scaled(val.num))
      ELSE IF val.unit \in {"pt", "cm", "mm", "in", "%"} THEN Fatal
      ELSE IF val.unit = "" THEN Ok(scaled(val.num))
      ELSE Fatal

----------------------------------------------------------------------------
(* SVGRect and the slice map *)

\* SVGRect.__init__
SVGRect(name) == [name |-> name, slice |-> <<0, 0, 0, 0>>, hotspot |-> <<0, 0>>]

HasRect(rects, name) == \E i \in 1..Len(rects) : rects[i].name = name

IndexOf(rects, name) == CHOOSE i \in 1..Len(rects) : rects[i].name = name

\* svg_rects[name]
GetRect(rects, name) == rects[IndexOf(rects, name)]

\* SVGLayerHandler._add: svg_rects[rect.name] = rect; a dict keeps the
\* position of a key that is assigned again
_add(rects, rect) ==
  IF HasRect(rects, rect.name)
  THEN [rects EXCEPT ![IndexOf(rects, rect.name)] = rect]
  ELSE Append(rects, rect)

----------------------------------------------------------------------------
(* SVGLayerHandler: the layer state machine *)

HasAttr(attrs, k) == k \in DOMAIN attrs

\* SVGLayerHandler._isHidden; the fall-through returns None, which is falsy
_isHidden(attrs) ==
  IF HasAttr(attrs, "display") THEN attrs.display = "none"
  ELSE IF HasAttr(attrs, "style")
       THEN \E i \in 1..Len(attrs.style) : attrs.style[i] = "display:none"
       ELSE FALSE

_inSlicesLayer(nests) == nests >= 1

\* a test that also holds at depth 0
InHotspotsLayerFromZero(hotspots) == hotspots >= 0

_inHotspotsLayer(hotspots) == hotspots >= 1

\* self._re_translate.match(transform): the two captured numbers, or <<>>
\* (None) when the string does not start with translate(dx, dy)
ReTranslateMatch(transform) ==
  IF /\ Len(transform) >= 1
     /\ transform[1].fn = "translate"
     /\ Len(transform[1].args) = 2
  THEN transform[1].args
  ELSE <<>>

\* the try/except of lines 409-418 and 421-430: the translation of a
\* slices or hotspots container, (0,0) on KeyError or AttributeError
LayerTranslation(attrs, sc) ==
  IF ~HasAttr(attrs, "transform") THEN <<0, 0>>
  ELSE LET m == ReTranslateMatch(attrs.transform)
       IN  IF m = <<>> THEN <<0, 0>>
           ELSE << parseCoordinates(Coord(m[1], ""), sc, TRUE)[2],
                   parseCoordinates(Coord(m[2], ""), sc, TRUE)[2] >>

\* lines 407-430: the label is read again; a slices or hotspots label sets
\* the hidden flag and the translation
LayerLabelled(st, attrs, sc) ==
  IF ~HasAttr(attrs, "label") THEN [st EXCEPT !.pc = "crash"]
  ELSE IF attrs.label = "slices"
       THEN [st EXCEPT !.slices_hidden = _isHidden(attrs),
                       !.translate = LayerTranslation(attrs, sc)]
  ELSE IF attrs.label = "hotspots"
       THEN [st EXCEPT !.hotspots_hidden = _isHidden(attrs),
                       !.translate = LayerTranslation(attrs, sc)]
  ELSE st

\* SVGLayerHandler._startElement_layer on the state
\* st = [pc, nests, hotspots, translate, slices_hidden, hotspots_hidden]
_startElement_layer(st, attrs, sc) ==
  IF ~(HasAttr(attrs, "groupmode") /\ attrs.groupmode = "layer") THEN st
  ELSE IF _inSlicesLayer(st.nests)
       THEN LayerLabelled([st EXCEPT !.nests = @ + 1], attrs, sc)
  ELSE IF ~HasAttr(attrs, "label") THEN [st EXCEPT !.pc = "crash"]
  ELSE IF attrs.label = "slices"
       THEN LayerLabelled([st EXCEPT !.nests = @ + 1], attrs, sc)
  ELSE IF _inHotspotsLayer(st.hotspots) \/ attrs.label = "hotspots"
       THEN LayerLabelled([st EXCEPT !.hotspots = @ + 1], attrs, sc)
  ELSE LayerLabelled(st, attrs, sc)

\* the 0.1 of lines 456-457, in tenths
Epsilon == 1

\* lines 443-447: the translation is added to a slice's position
TranslateSlice(r, tr) ==
  [r EXCEPT !.slice = <<r.slice[1] + tr[1], r.slice[2] + tr[2],
                        r.slice[3], r.slice[4]>>]

\* ConvertHotspot without the translation of the hotspots container
ConvertHotspotNoTranslation(r, tr) ==
  [r EXCEPT !.hotspot = <<(r.hotspot[1] - Epsilon) - r.slice[1],
                          (r.hotspot[2] - Epsilon) - r.slice[2]>>]

\* lines 455-457: the hotspot is made relative to the slice
ConvertHotspot(r, tr) ==
  [r EXCEPT !.hotspot = <<(r.hotspot[1] + tr[1] - Epsilon) - r.slice[1],
                          (r.hotspot[2] + tr[2] - Epsilon) - r.slice[2]>>]

\* lines 440-450: leaving a <g> while in the slices layer
EndInSlices(st) ==
  IF _inSlicesLayer(st.nests)
  THEN LET moved == [i \in 1..Len(st.rects) |-> TranslateSlice(st.rects[i], st.translate)]
       IN  [st EXCEPT !.nests = @ - 1,
                      !.rects = moved,
                      !.size = IF st.size = <<>> /\ Len(moved) > 0
                               THEN <<Round(moved[1].slice[3], 10)>>
                               ELSE @]
  ELSE st

\* lines 451-458: leaving a <g> while in the hotspots layer
EndInHotspots(st) ==
  IF _inHotspotsLayer(st.hotspots)
  THEN [st EXCEPT !.hotspots = @ - 1,
                  !.rects = [i \in 1..Len(st.rects) |->
                               ConvertHotspot(st.rects[i], st.translate)]]
  ELSE st

\* SVGLayerHandler._endElement_layer on the state
\* st = [nests, hotspots, translate, rects, size]
_endElement_layer(st) == EndInHotspots(EndInSlices(st))

\* lines 470-473 and 492-495: the label, or the id when there is no label
ResolveName(attrs) == IF HasAttr(attrs, "label") THEN attrs.label ELSE attrs.id

\* SVGLayerHandler._startElement_rect on st = [pc, rects]
_startElement_rect(st, nests, attrs, sc) ==
  IF ~_inSlicesLayer(nests) THEN st
  ELSE LET x == parseCoordinates(attrs.x, sc, TRUE)
           y == parseCoordinates(attrs.y, sc, TRUE)
           w == parseCoordinates(attrs.width, sc, TRUE)
           h == parseCoordinates(attrs.height, sc, TRUE)
       IN  IF Fatal \in {x, y, w, h} THEN [st EXCEPT !.pc = "fatal"]
           ELSE [st EXCEPT !.rects =
                   _add(st.rects, [SVGRect(ResolveName(attrs)) EXCEPT
                                     !.slice = <<x[2], y[2], w[2], h[2]>>])]

\* _startElement_circle creating the slice an orphan hotspot names
StartElementCircleAddsOrphan(st, hotspots, attrs, sc) ==
  IF ~_inHotspotsLayer(hotspots) THEN st
  ELSE LET name == ResolveName(attrs)
           cx == parseCoordinates(attrs.cx, sc, TRUE)
           cy == parseCoordinates(attrs.cy, sc, TRUE)
       IN  IF ~StartsWith(name, hotspotPrefix) THEN st
           ELSE IF Fatal \in {cx, cy} THEN [st EXCEPT !.pc = "fatal"]
           ELSE [st EXCEPT !.rects =
                   _add(st.rects,
                        [(IF HasRect(st.rects, DropFirst(name, 8))
                          THEN GetRect(st.rects, DropFirst(name, 8))
                          ELSE SVGRect(DropFirst(name, 8)))
                         EXCEPT !.hotspot = <<cx[2], cy[2]>>])]

\* SVGLayerHandler._startElement_circle on st = [pc, rects, warnings]
_startElement_circle(st, hotspots, attrs, sc) ==
  IF ~_inHotspotsLayer(hotspots) THEN st
  ELSE LET name == ResolveName(attrs)
       IN  IF ~StartsWith(name, hotspotPrefix) THEN st
           ELSE IF ~HasRect(st.rects, DropFirst(name, 8))
                THEN [st EXCEPT !.warnings = @ + 1]
           ELSE LET cx == parseCoordinates(attrs.cx, sc, TRUE)
                    cy == parseCoordinates(attrs.cy, sc, TRUE)
                IN  IF Fatal \in {cx, cy} THEN [st EXCEPT !.pc = "fatal"]
                    ELSE [st EXCEPT !.rects[IndexOf(st.rects, DropFirst(name, 8))].hotspot =
                            <<cx[2], cy[2]>>]

----------------------------------------------------------------------------
(* History of the document read so far (not program state) *)

\* what a <g> start tag is in the document: the slices layer "S", the
\* hotspots layer "H", another layer "L", a plain group "P"
GKind(attrs) ==
  IF ~(HasAttr(attrs, "groupmode") /\ attrs.groupmode = "layer") THEN "P"
  ELSE IF ~HasAttr(attrs, "label") THEN "L"
  ELSE IF attrs.label = "slices" THEN "S"
  ELSE IF attrs.label = "hotspots" THEN "H"
  ELSE "L"

GStart(attrs, sc) ==
  [kind |-> GKind(attrs),
   tr |-> IF GKind(attrs) \in {"S", "H"} THEN LayerTranslation(attrs, sc) ELSE <<0, 0>>]

GEnd == [kind |-> "E", tr |-> <<0, 0>>]

RECURSIVE OpenGroups(_)
\* the <g> elements that are open after the events h, outermost first
OpenGroups(h) ==
  IF h = <<>> THEN <<>>
  ELSE LET before == OpenGroups(SubSeq(h, 1, Len(h) - 1))
           e == h[Len(h)]
       IN  IF e.kind = "E" THEN SubSeq(before, 1, Len(before) - 1)
           ELSE Append(before, e)

NumStarts(h) == Cardinality({i \in 1..Len(h) : h[i].kind # "E"})

\* the document position is between the start and the matching end of a
\* slices-labelled (hotspots-labelled) layer container
InsideSlicesLayer(h) == \E i \in 1..Len(OpenGroups(h)) : OpenGroups(h)[i].kind = "S"

InsideHotspotsLayer(h) == \E i \in 1..Len(OpenGroups(h)) : OpenGroups(h)[i].kind = "H"

\* the translations of the open slices-labelled containers, outermost first
EnclosingTranslations(h) ==
  LET open == OpenGroups(h)
      F[i \in 0..Len(open)] ==
        IF i = 0 THEN <<>>
        ELSE IF open[i].kind = "S" THEN Append(F[i - 1], open[i].tr) ELSE F[i - 1]
  IN  F[Len(open)]

NoEvent == [kind |-> "none"]

----------------------------------------------------------------------------
(* The extraction run: SVGLayerHandler.__init__ and the SAX callbacks *)

\* SVGLayerHandler.__init__ up to the parse, with startElement_svg read:
\* a document whose viewBox equals its width and height
\* the fields of a fresh SVGLayerHandler, the slice map aside
ParserInit ==
  /\ scale = <<1, 1>>
  /\ layer_nests = 0
  /\ layer_hotspots = 0
  /\ translate = <<0, 0>>
  /\ size = <<>>
  /\ slices_hidden = FALSE
  /\ hotspots_hidden = FALSE
  /\ warnings = 0
  /\ gHist = <<>>
  /\ authored = <<>>
  /\ rawHot = <<>>
  /\ lastEvent = NoEvent
  /\ nMarkers = 0

ExtractInit ==
  /\ ParserInit
  /\ svg_rects = <<>>

\* no name is being decomposed
FrameIdle ==
  /\ sliceName = <<>>
  /\ decomposed = <<>>

\* the main program has not reached the emitter
EmitIdle ==
  /\ fps = <<0, 1>>
  /\ emitQueue = <<>>
  /\ files = <<>>
  /\ lastWrite = <<>>

\* the main program is not being run
MainIdle ==
  /\ options = <<>>
  /\ title = <<>>
  /\ themeDir = "absent"
  /\ workDirs = FALSE

\* no SVGFilter is being run
FilterIdle ==
  /\ filterMode = {}
  /\ dropshadow_id = <<>>
  /\ in_throwaway_layer_stack = <<>>
  /\ downstream = <<>>
  /\ filterWarnings = 0
  /\ filterIn = <<>>

\* no document is being parsed twice
RerunIdle ==
  /\ document = <<>>
  /\ firstRun = <<>>

Init ==
  /\ pc = "parsing"
  /\ ExtractInit
  /\ FrameIdle
  /\ EmitIdle
  /\ MainIdle
  /\ FilterIdle
  /\ RerunIdle

\* startElement('g', attrs)
GroupStarts(attrs) ==
  /\ pc = "parsing"
  /\ LET st == _startElement_layer(
                 [pc |-> pc, nests |-> layer_nests, hotspots |-> layer_hotspots,
                  translate |-> translate, slices_hidden |-> slices_hidden,
                  hotspots_hidden |-> hotspots_hidden], attrs, scale)
     IN  /\ pc' = st.pc
         /\ layer_nests' = st.nests
         /\ layer_hotspots' = st.hotspots
         /\ translate' = st.translate
         /\ slices_hidden' = st.slices_hidden
         /\ hotspots_hidden' = st.hotspots_hidden
  /\ gHist' = Append(gHist, GStart(attrs, scale))
  /\ lastEvent' = [kind |-> "g", gkind |-> GKind(attrs),
                   transform |-> IF HasAttr(attrs, "transform")
                                 THEN attrs.transform ELSE <<>>]
  /\ UNCHANGED <<scale, svg_rects, size, warnings, authored, rawHot, nMarkers,
                 frameVars, emitVars, mainVars, filterVars, rerunVars>>

\* startElement('g', attrs) in a document of at most MaxGroups containers
StartGroup(attrs) ==
  /\ NumStarts(gHist) < MaxGroups
  /\ GroupStarts(attrs)

\* endElement('g')
EndGroup ==
  /\ pc = "parsing"
  /\ OpenGroups(gHist) # <<>>
  /\ LET st == _endElement_layer(
                 [nests |-> layer_nests, hotspots |-> layer_hotspots,
                  translate |-> translate, rects |-> svg_rects, size |-> size])
     IN  /\ layer_nests' = st.nests
         /\ layer_hotspots' = st.hotspots
         /\ svg_rects' = st.rects
         /\ size' = st.size
  /\ gHist' = Append(gHist, GEnd)
  /\ lastEvent' = [kind |-> "/g"]
  /\ UNCHANGED <<pc, scale, translate, slices_hidden, hotspots_hidden, warnings,
                 authored, rawHot, nMarkers,
                 frameVars, emitVars, mainVars, filterVars, rerunVars>>

\* startElement('rect', attrs)
Rect(attrs) ==
  /\ pc = "parsing"
  /\ nMarkers < MaxMarkers
  /\ LET st == _startElement_rect([pc |-> pc, rects |-> svg_rects],
                                  layer_nests, attrs, scale)
         name == ResolveName(attrs)
         geom == <<attrs.x.num, attrs.y.num, attrs.width.num, attrs.height.num>>
     IN  /\ pc' = st.pc
         /\ svg_rects' = st.rects
         /\ lastEvent' = [kind |-> "rect", name |-> name, geom |-> geom, attrs |-> attrs]
         /\ IF st.rects # svg_rects \/ (st.pc = "parsing" /\ _inSlicesLayer(layer_nests))
            THEN /\ authored' = (name :> [pos |-> <<geom[1], geom[2]>>,
                                          encl |-> EnclosingTranslations(gHist)])
                                @@ authored
                 /\ rawHot' = [n \in DOMAIN rawHot \ {name} |-> rawHot[n]]
            ELSE UNCHANGED <<authored, rawHot>>
  /\ nMarkers' = nMarkers + 1
  /\ UNCHANGED <<scale, layer_nests, layer_hotspots, translate, size, slices_hidden,
                 hotspots_hidden, warnings, gHist,
                 frameVars, emitVars, mainVars, filterVars, rerunVars>>

\* startElement('circle', attrs)
Circle(attrs) ==
  /\ pc = "parsing"
  /\ nMarkers < MaxMarkers
  /\ LET st == _startElement_circle(
                 [pc |-> pc, rects |-> svg_rects, warnings |-> warnings],
                 layer_hotspots, attrs, scale)
         name == ResolveName(attrs)
     IN  /\ pc' = st.pc
         /\ svg_rects' = st.rects
         /\ warnings' = st.warnings
         /\ lastEvent' = [kind |-> "circle", name |-> name, attrs |-> attrs]
         /\ IF /\ st.pc = "parsing"
               /\ _inHotspotsLayer(layer_hotspots)
               /\ StartsWith(name, hotspotPrefix)
               /\ HasRect(svg_rects, DropFirst(name, 8))
            THEN rawHot' = (DropFirst(name, 8) :> <<attrs.cx.num, attrs.cy.num>>) @@ rawHot
            ELSE UNCHANGED rawHot
  /\ nMarkers' = nMarkers + 1
  /\ UNCHANGED <<scale, layer_nests, layer_hotspots, translate, size, slices_hidden,
                 hotspots_hidden, gHist, authored,
                 frameVars, emitVars, mainVars, filterVars, rerunVars>>

\* the parse returns: every element has been closed
EndDocument ==
  /\ pc = "parsing"
  /\ OpenGroups(gHist) = <<>>
  /\ pc' = "done"
  /\ lastEvent' = [kind |-> "end"]
  /\ UNCHANGED <<scale, layer_nests, layer_hotspots, translate, svg_rects, size,
                 slices_hidden, hotspots_hidden, warnings, gHist, authored, rawHot,
                 nMarkers,
                 frameVars, emitVars, mainVars, filterVars, rerunVars>>

Next ==
  \/ \E attrs \in GAttrs : StartGroup(attrs)
  \/ EndGroup
  \/ \E attrs \in RectAttrs : Rect(attrs)
  \/ \E attrs \in CircleAttrs : Circle(attrs)
  \/ EndDocument

Spec == Init /\ [][Next]_vars

----------------------------------------------------------------------------
(* Properties of the extraction run *)

\* a hotspots-labelled (slices-labelled) layer container has been closed
HotspotsLayerClosed ==
  Cardinality({i \in 1..Len(gHist) : gHist[i].kind = "H"})
    > Cardinality({i \in 1..Len(OpenGroups(gHist)) : OpenGroups(gHist)[i].kind = "H"})

SlicesLayerClosed ==
  Cardinality({i \in 1..Len(gHist) : gHist[i].kind = "S"})
    > Cardinality({i \in 1..Len(OpenGroups(gHist)) : OpenGroups(gHist)[i].kind = "S"})

HotspotInRange(r) ==
  /\ 0 <= r.hotspot[1] /\ r.hotspot[1] <= r.slice[3]
  /\ 0 <= r.hotspot[2] /\ r.hotspot[2] <= r.slice[4]

\* C1: when extraction of a document with a hotspots layer has ended, every
\* Slice has 0 <= hotspot_offset.x <= size.width and
\* 0 <= hotspot_offset.y <= size.height (an out-of-range offset having been
\* replaced by (0,0)).
C1_HotspotWithinSlice ==
  (pc = "done" /\ HotspotsLayerClosed) =>
     \A i \in 1..Len(svg_rects) : HotspotInRange(svg_rects[i])

\* C2: once the slices layer has closed, every Slice has width = height, or
\* the run has ended in the fatal-error state.
C2_SquareOrFatal ==
  SlicesLayerClosed =>
     \/ pc = "fatal"
     \/ \A i \in 1..Len(svg_rects) : svg_rects[i].slice[3] = svg_rects[i].slice[4]

\* C3: a Slice created inside two nested slices-layer containers, the outer
\* with translation (2,3) and the inner with translation (10,0), ends
\* extraction with position = authored position + (12,3).
C3_NestedTranslationsAddOnce ==
  pc = "done" =>
     \A i \in 1..Len(svg_rects) :
        LET r == svg_rects[i]
        IN  (/\ r.name \in DOMAIN authored
             /\ authored[r.name].encl = << <<20, 30>>, <<100, 0>> >>)
            => /\ r.slice[1] = authored[r.name].pos[1] + 120
               /\ r.slice[2] = authored[r.name].pos[2] + 30

\* the document has exactly one slices layer and one hotspots layer, nothing
\* is nested in either, and the slices layer closes before the hotspots
\* layer opens: i and j are the places of their start tags
OneSlicesThenOneHotspots(i, j) ==
  /\ i + 1 < j /\ j + 1 <= Len(gHist)
  /\ gHist[i].kind = "S" /\ gHist[i + 1].kind = "E"
  /\ gHist[j].kind = "H" /\ gHist[j + 1].kind = "E"
  /\ \A k \in 1..Len(gHist) : gHist[k].kind \in {"S", "H"} => k \in {i, j}

\* C4: in a document with one un-nested slices layer (translation Ts) that
\* closes before one un-nested hotspots layer (translation Th) opens, a Slice
\* authored at p whose circle hotspot.<name> has centre c ends extraction
\* with hotspot_offset = (c + Th - 0.1) - (p + Ts) on each axis.
C4_HotspotOffset ==
  pc = "done" =>
     \A i, j \in 1..Len(gHist) :
        OneSlicesThenOneHotspots(i, j) =>
           \A k \in 1..Len(svg_rects) :
              LET r == svg_rects[k]
                  Ts == gHist[i].tr
                  Th == gHist[j].tr
              IN  r.name \in DOMAIN rawHot =>
                    LET c == rawHot[r.name]
                        p == authored[r.name].pos
                    \* 0.1 is one tenth
                    IN  /\ r.hotspot[1] = (c[1] + Th[1] - 1) - (p[1] + Ts[1])
                        /\ r.hotspot[2] = (c[2] + Th[2] - 1) - (p[2] + Ts[2])

\* C4 witness: slice arrow 32x32 at (10,10) with hotspot.arrow at (12,12) and
\* no translations has ended with hotspot_offset (1.9, 1.9)
C4_Witness ==
  /\ pc = "done"
  /\ \E i, j \in 1..Len(gHist) :
        /\ OneSlicesThenOneHotspots(i, j)
        /\ gHist[i].tr = <<0, 0>> /\ gHist[j].tr = <<0, 0>>
  /\ HasRect(svg_rects, arrow)
  /\ arrow \in DOMAIN rawHot /\ rawHot[arrow] = <<120, 120>>
  /\ GetRect(svg_rects, arrow).slice = <<100, 100, 320, 320>>
  /\ GetRect(svg_rects, arrow).hotspot = <<19, 19>>

\* the step reads a circle that the parser takes to lie in the hotspots
\* layer, named hotspot.<n>, while no Slice <n> exists
OrphanCircleStep ==
  /\ pc = "parsing"
  /\ lastEvent'.kind = "circle"
  /\ _inHotspotsLayer(layer_hotspots)
  /\ StartsWith(lastEvent'.name, hotspotPrefix)
  /\ ~HasRect(svg_rects, DropFirst(lastEvent'.name, 8))

C9_RectInsideSlicesLayerIsSlice ==
  [][(pc = "parsing" /\ lastEvent'.kind = "rect" /\ pc' = "parsing") =>
       IF InsideSlicesLayer(gHist)
       THEN /\ HasRect(svg_rects', lastEvent'.name)
            /\ GetRect(svg_rects', lastEvent'.name).slice = lastEvent'.geom
       ELSE svg_rects' = svg_rects]_vars

\* C10: a Slice for which no matching hotspot.<name> circle was read ends
\* extraction with hotspot_offset exactly (0,0).
C10_UnmatchedHotspotIsZero ==
  pc = "done" =>
     \A i \in 1..Len(svg_rects) :
        svg_rects[i].name \notin DOMAIN rawHot => svg_rects[i].hotspot = <<0, 0>>

----------------------------------------------------------------------------
(* Frame decomposition: SVGRect.get_animated_cursor_name *)

MaxNameLen == 6

NameChars == {"c", "_", "0", "1", "+", "-", " "}

Names == UNION {[1..n -> NameChars] : n \in 0..MaxNameLen}

Digits == {"0", "1", "2", "3", "4", "5", "6", "7", "8", "9"}

DigitValue(c) ==
  CASE c = "0" -> 0 [] c = "1" -> 1 [] c = "2" -> 2 [] c = "3" -> 3 [] c = "4" -> 4
    [] c = "5" -> 5 [] c = "6" -> 6 [] c = "7" -> 7 [] c = "8" -> 8 [] c = "9" -> 9

\* s[-n:]
LastChars(s, n) == IF Len(s) <= n THEN s ELSE SubSeq(s, Len(s) - n + 1, Len(s))

\* s[:-n]
DropLast(s, n) == SubSeq(s, 1, Len(s) - n)

RECURSIVE StripSpaces(_)
\* str.strip(), as int() applies it to its argument
StripSpaces(s) ==
  IF s = <<>> THEN s
  ELSE IF s[1] = " " THEN StripSpaces(Tail(s))
  ELSE IF s[Len(s)] = " " THEN StripSpaces(DropLast(s, 1))
  ELSE s

\* the digit part of an int literal: digits, single underscores between them
IsDigitPart(b) ==
  /\ Len(b) >= 1
  /\ b[1] \in Digits
  /\ b[Len(b)] \in Digits
  /\ \A i \in 1..Len(b) : b[i] \in Digits \cup {"_"}
  /\ \A i \in 1..(Len(b) - 1) : ~(b[i] = "_" /\ b[i + 1] = "_")

RECURSIVE DigitPartValue(_)
DigitPartValue(b) ==
  IF b = <<>> THEN 0
  ELSE IF b[Len(b)] = "_" THEN DigitPartValue(DropLast(b, 1))
  ELSE 10 * DigitPartValue(DropLast(b, 1)) + DigitValue(b[Len(b)])

ValueError == <<"ValueError">>

\* builtin int(s) in base 10: surrounding whitespace, an optional sign,
\* digits with single underscores between them; ValueError otherwise
IntOf(s) ==
  LET t == StripSpaces(s)
      signed == t # <<>> /\ t[1] \in {"+", "-"}
      body == IF signed THEN Tail(t) ELSE t
  IN  IF ~IsDigitPart(body) THEN ValueError
      ELSE IF signed /\ t[1] = "-" THEN Ok(0 - DigitPartValue(body))
      ELSE Ok(DigitPartValue(body))

\* frame = -1 of line 169: the name is no animation frame
NoFrame == -1

\* SVGRect.get_animated_cursor_name: (sliceName, frame)
get_animated_cursor_name(name) ==
  IF StartsWith(LastChars(name, 5), <<"_">>)
  THEN LET n == IntOf(LastChars(name, 4))
       IN  IF n = ValueError THEN <<name, NoFrame>>
           ELSE <<DropLast(name, 5), n[2]>>
  ELSE <<name, NoFrame>>

InitFrame ==
  /\ pc = "frame"
  /\ sliceName \in Names
  /\ decomposed = <<>>
  /\ ExtractInit
  /\ EmitIdle
  /\ MainIdle
  /\ FilterIdle
  /\ RerunIdle

\* a call of get_animated_cursor_name on a SVGRect named sliceName
Decompose ==
  /\ pc = "frame"
  /\ decomposed' = get_animated_cursor_name(sliceName)
  /\ pc' = "decomposed"
  /\ UNCHANGED <<sliceName, extractVars, emitVars, mainVars, filterVars, rerunVars>>

NextFrame == Decompose

SpecFrame == InitFrame /\ [][NextFrame]_vars

----------------------------------------------------------------------------
(* Properties of frame decomposition *)

\* the name ends in an underscore followed by exactly four decimal digits
EndsInFourDigits(n) ==
  /\ Len(n) >= 5
  /\ n[Len(n) - 4] = "_"
  /\ \A i \in (Len(n) - 3)..Len(n) : n[i] \in Digits

\* the value of the last four characters read as a decimal number
FourDigitValue(n) ==
  1000 * DigitValue(n[Len(n) - 3]) + 100 * DigitValue(n[Len(n) - 2])
    + 10 * DigitValue(n[Len(n) - 1]) + DigitValue(n[Len(n)])

\* C6: get_animated_cursor_name returns (name without its last 5 characters,
\* k) with k positive exactly when the name ends in an underscore followed by
\* four decimal digits of positive value k; for every other name (no suffix,
\* non-digit suffix, _0000, a sign, space or underscore among the last four
\* characters) it returns the unchanged name and no frame index.
C6_FrameDecomposition ==
  pc = "decomposed" =>
     IF EndsInFourDigits(sliceName) /\ FourDigitValue(sliceName) > 0
     THEN decomposed = <<DropLast(sliceName, 5), FourDigitValue(sliceName)>>
     ELSE decomposed = <<sliceName, NoFrame>>

----------------------------------------------------------------------------
(* The cursor config emitter: SVGRect.writeCursorConfig and the main loop *)

MaxSlices == 3

\* the global sizes of line 66
sizes == <<24, 32, 48, 64, 96>>

\* the global fps as a fraction: --fps 20, and the default 16.66666
FpsValues == {<<20, 1>>, <<1666666, 100000>>}

blink == <<"b","l","i","n","k">>

blink_0000 == blink \o <<"_","0","0","0","0">>

blink_0001 == blink \o <<"_","0","0","0","1">>

blink_0002 == blink \o <<"_","0","0","0","2">>

blink_0010 == blink \o <<"_","0","0","1","0">>

EmitNames == {arrow, blink, blink_0000, blink_0001, blink_0002, blink_0010}

\* slice and hotspot of a finished Slice: 32 wide with hotspot (16,16) or
\* (1.9,1.9), 24.5 wide with hotspot (12.5,0)
EmitGeometries ==
  { [slice |-> <<100, 100, 320, 320>>, hotspot |-> <<160, 160>>],
    [slice |-> <<100, 100, 320, 320>>, hotspot |-> <<19, 19>>],
    [slice |-> <<0, 0, 245, 245>>, hotspot |-> <<125, 0>>] }

\* a finished Slice: one of the names with one of the geometries
EmitRects ==
  {[name |-> n, slice |-> g.slice, hotspot |-> g.hotspot] :
     n \in EmitNames, g \in EmitGeometries}

\* the slice maps the emitter is run on: up to MaxSlices slices with
\* different names, in any insertion order
GeometryModels ==
  {m \in UNION {[1..n -> EmitRects] : n \in 1..MaxSlices} :
     \A i, j \in 1..Len(m) : i # j => m[i].name # m[j].name}

\* the characters of the names, in code point order
CodePointOrder ==
  <<" ", "+", "-", "0", "1", "2", "3", "4", "5", "6", "7", "8", "9", "_",
    "a", "b", "c", "g", "h", "i", "k", "l", "n", "o", "r", "s", "t", "u", "w", "y">>

CodePoint(c) == CHOOSE i \in 1..Len(CodePointOrder) : CodePointOrder[i] = c

\* a < b on str
StrLess(a, b) ==
  \E k \in 1..Len(b) :
     /\ \A i \in 1..(k - 1) : i <= Len(a) /\ a[i] = b[i]
     /\ k - 1 <= Len(a)
     /\ (k > Len(a) \/ CodePoint(a[k]) < CodePoint(b[k]))

RECURSIVE SortedByName(_)
\* sorted(rects, key=lambda x: x.name)
SortedByName(rects) ==
  IF rects = <<>> THEN <<>>
  ELSE LET least == CHOOSE i \in 1..Len(rects) :
                      \A j \in 1..Len(rects) : ~StrLess(rects[j].name, rects[i].name)
           others == [k \in 1..(Len(rects) - 1) |->
                        IF k < least THEN rects[k] ELSE rects[k + 1]]
       IN  <<rects[least]>> \o SortedByName(others)

\* lines 148-151
OpenMode(frame) == IF frame = NoFrame \/ frame = 1 THEN "w" ELSE "a"

\* lines 152-155: the delay field, empty or round(1000.0 / fps)
Delay(frame, f) == IF frame = NoFrame THEN <<>> ELSE <<Round(1000 * f[2], f[1])>>

\* ConfigLine with the hotspot left in document units
ConfigLineUnscaled(rect, sz, delay) ==
  <<sz, Round(rect.hotspot[1], 10), Round(rect.hotspot[2], 10),
    [dir |-> sz, png |-> rect.name]>> \o delay

\* lines 159-163: the fields of '{size} {x} {y} {size}/{name}.png{delay}'
ConfigLine(rect, sz, delay) ==
  LET w == Round(rect.slice[3], 10)
  IN  <<sz, Round(rect.hotspot[1] * sz, 10 * w), Round(rect.hotspot[2] * sz, 10 * w),
        [dir |-> sz, png |-> rect.name]>> \o delay

\* lines 158-165: one line per size
ConfigLines(rect, f) ==
  LET frame == get_animated_cursor_name(rect.name)[2]
  IN  [i \in 1..Len(sizes) |-> ConfigLine(rect, sizes[i], Delay(frame, f))]

\* open(name, mode) and the writes: 'w' truncates, 'a' keeps what is there
WriteFile(fs, name, mode, lines) ==
  LET old == IF mode = "a" /\ name \in DOMAIN fs THEN fs[name] ELSE <<>>
  IN  (name :> (old \o lines)) @@ fs

\* lines 729-797 done: a non-empty slice map, an empty hotspots directory
InitEmit ==
  /\ pc = "main"
  /\ svg_rects \in GeometryModels
  /\ fps \in FpsValues
  /\ emitQueue = <<>>
  /\ files = <<>>
  /\ lastWrite = <<>>
  /\ ParserInit
  /\ FrameIdle
  /\ MainIdle
  /\ FilterIdle
  /\ RerunIdle

\* line 799: the loop starts over the slices sorted by name
StartEmit ==
  /\ pc = "main"
  /\ emitQueue' = SortedByName(svg_rects)
  /\ pc' = "emit"
  /\ UNCHANGED <<extractVars, frameVars, fps, files, lastWrite, mainVars, filterVars, rerunVars>>

\* line 800: rect.writeCursorConfig(pngs_directory, hotspots_directory)
writeCursorConfig ==
  /\ pc = "emit"
  /\ emitQueue # <<>>
  /\ LET rect == Head(emitQueue)
         named == get_animated_cursor_name(rect.name)
         mode == OpenMode(named[2])
         lines == ConfigLines(rect, fps)
     IN  /\ files' = WriteFile(files, named[1], mode, lines)
         /\ lastWrite' = [rect |-> rect, file |-> named[1], mode |-> mode,
                          lines |-> lines]
  /\ emitQueue' = Tail(emitQueue)
  /\ UNCHANGED <<pc, extractVars, frameVars, fps, mainVars, filterVars, rerunVars>>

\* the loop of lines 799-800 is over
EmitDone ==
  /\ pc = "emit"
  /\ emitQueue = <<>>
  /\ pc' = "emitted"
  /\ UNCHANGED <<extractVars, frameVars, emitVars, mainVars, filterVars, rerunVars>>

NextEmit ==
  \/ StartEmit
  \/ writeCursorConfig
  \/ EmitDone

SpecEmit == InitEmit /\ [][NextEmit]_vars

----------------------------------------------------------------------------
(* Properties of the emitter *)

FrameOf(r) == get_animated_cursor_name(r.name)[2]

BaseOf(r) == get_animated_cursor_name(r.name)[1]

\* the frames of base name b in the slice map
FramesOf(b) ==
  {i \in 1..Len(svg_rects) :
     BaseOf(svg_rects[i]) = b /\ FrameOf(svg_rects[i]) # NoFrame}

RECURSIVE LinesInFrameOrder(_)
\* the lines of the slices in I, lowest frame index first
LinesInFrameOrder(I) ==
  IF I = {} THEN <<>>
  ELSE LET first == CHOOSE i \in I :
                      \A j \in I : FrameOf(svg_rects[i]) <= FrameOf(svg_rects[j])
       IN  ConfigLines(svg_rects[first], fps) \o LinesInFrameOrder(I \ {first})

\* C7: after the slices have been emitted in ascending name order, the
\* config file of each animated base name holds exactly the lines of all of
\* that base name's frames, in increasing frame-index order.
C7_FramesInOrder ==
  pc = "emitted" =>
     \A i \in 1..Len(svg_rects) :
        FrameOf(svg_rects[i]) # NoFrame =>
           LET b == BaseOf(svg_rects[i])
           IN  /\ b \in DOMAIN files
               /\ files[b] = LinesInFrameOrder(FramesOf(b))

\* x is an integer nearest to n/d, d > 0
Nearest(x, n, d) ==
  /\ 2 * (x * d - n) <= d
  /\ 2 * (n - x * d) <= d

----------------------------------------------------------------------------
(* Transforms of the slices and hotspots containers *)

\* transform attribute values: translate(2,3), translate(-1 0.5),
\* translate(2,3) rotate(45), rotate(45), scale(2), matrix(1 0 0 1 2 3),
\* translate(2)
TransformValues ==
  { Translate(20, 30),
    Translate(-10, 5),
    Translate(20, 30) \o <<[fn |-> "rotate", args |-> <<450>>]>>,
    <<[fn |-> "rotate", args |-> <<450>>]>>,
    <<[fn |-> "scale", args |-> <<20>>]>>,
    <<[fn |-> "matrix", args |-> <<10, 0, 0, 10, 20, 30>>]>>,
    <<[fn |-> "translate", args |-> <<20>>]>> }

\* slices and hotspots layer containers with and without a transform
TransformLayers ==
  {[groupmode |-> "layer", label |-> l, style |-> <<"display:none">>] @@ a :
     l \in {"slices", "hotspots"}, a \in OptAttr("transform", TransformValues)}

\* a traversal of <g> start and end tags only
NextLayers ==
  \/ \E attrs \in TransformLayers \cup OtherGroups : StartGroup(attrs)
  \/ EndGroup
  \/ EndDocument

SpecLayers == Init /\ [][NextLayers]_vars

\* the transform is one translate function of two numbers and nothing else
IsPureTranslate(transform) ==
  /\ Len(transform) = 1
  /\ transform[1].fn = "translate"
  /\ Len(transform[1].args) = 2

\* C11: the start of a slices or hotspots layer container sets the
\* translation in effect to (dx,dy) when its transform is a single pure
\* translate(dx,dy), and to (0,0) for every other transform (a compound list
\* beginning with a translate, a rotation, a scale, a matrix) and for a
\* missing transform; it never ends the parse.
C11_OnlyPureTranslate ==
  [][(pc = "parsing" /\ lastEvent'.kind = "g" /\ lastEvent'.gkind \in {"S", "H"}) =>
       /\ pc' = "parsing"
       /\ translate' =
            IF IsPureTranslate(lastEvent'.transform)
            THEN <<lastEvent'.transform[1].args[1], lastEvent'.transform[1].args[2]>>
            ELSE <<0, 0>>]_vars

----------------------------------------------------------------------------
(* Units of coordinates *)

BadUnits == {"pt", "cm", "mm", "in", "%"}

AllUnits == {"", "px"} \cup BadUnits

\* the rect busy with each unit on each of x, y, width and height
UnitRects ==
  {[id |-> busy, x |-> Coord(500, u[1]), y |-> Coord(100, u[2]),
    width |-> Coord(320, u[3]), height |-> Coord(320, u[4])] :
     u \in {v \in [1..4 -> AllUnits] : Cardinality({k \in 1..4 : v[k] # ""}) <= 1}}

\* the circle hotspot.busy with each unit on each of cx and cy, and an
\* orphan hotspot with a bad unit
UnitCircles ==
  {[id |-> hotspotPrefix \o busy, cx |-> Coord(520, u[1]), cy |-> Coord(120, u[2])] :
     u \in {v \in [1..2 -> AllUnits] : Cardinality({k \in 1..2 : v[k] # ""}) <= 1}}
  \cup
  {[id |-> hotspotPrefix \o ghost, cx |-> Coord(120, "mm"), cy |-> Coord(120, "")]}

\* the slices and the hotspots layer container
UnitLayers ==
  {[groupmode |-> "layer", label |-> l, style |-> <<"display:none">>] :
     l \in {"slices", "hotspots"}}

\* a traversal of the two layers and of markers with units
NextUnits ==
  \/ \E attrs \in UnitLayers : StartGroup(attrs)
  \/ EndGroup
  \/ \E attrs \in UnitRects : Rect(attrs)
  \/ \E attrs \in UnitCircles : Circle(attrs)
  \/ EndDocument

SpecUnits == Init /\ [][NextUnits]_vars

\* the attribute values the handler of a rect or circle event passes to
\* parseCoordinates, in the parser state the event is read in
CoordinatesParsed(ev, nests, hotspots, rects) ==
  IF ev.kind = "rect"
  THEN IF _inSlicesLayer(nests)
       THEN {ev.attrs.x, ev.attrs.y, ev.attrs.width, ev.attrs.height}
       ELSE {}
  ELSE IF /\ _inHotspotsLayer(hotspots)
          /\ StartsWith(ev.name, hotspotPrefix)
          /\ HasRect(rects, DropFirst(ev.name, 8))
       THEN {ev.attrs.cx, ev.attrs.cy}
       ELSE {}

\* the pixel value of a coordinate with a good unit
Pixels(val) == scale[1] * val.num

\* C12: a rect or circle event whose coordinates are bare numbers or have
\* the suffix px records their pixel values; if one of the coordinates it
\* parses ends in pt, cm, mm, in or % the run is in the fatal-error state
\* after the event, no Slice or hotspot has been recorded from the marker,
\* and no later event is processed.
C12_UnitRule ==
  [][/\ pc # "fatal"
     /\ (pc = "parsing" /\ lastEvent'.kind \in {"rect", "circle"}) =>
          LET ev == lastEvent'
              parsed == CoordinatesParsed(ev, layer_nests, layer_hotspots, svg_rects)
          IN  IF \E c \in parsed : c.unit \in BadUnits
              THEN /\ pc' = "fatal"
                   /\ svg_rects' = svg_rects
              ELSE /\ pc' = "parsing"
                   /\ (ev.kind = "rect" /\ parsed # {}) =>
                        GetRect(svg_rects', ev.name).slice =
                          <<Pixels(ev.attrs.x), Pixels(ev.attrs.y),
                            Pixels(ev.attrs.width), Pixels(ev.attrs.height)>>
                   /\ (ev.kind = "circle" /\ parsed # {}) =>
                        GetRect(svg_rects', DropFirst(ev.name, 8)).hotspot =
                          <<Pixels(ev.attrs.cx), Pixels(ev.attrs.cy)>>]_vars

\* C12 witness: the circle hotspot.busy with cy in pt has been read in the
\* hotspots layer; the run is in the fatal-error state and busy, read
\* before, has its position and no hotspot
C12_Witness ==
  /\ pc = "fatal"
  /\ lastEvent.kind = "circle"
  /\ lastEvent.name = hotspotPrefix \o busy
  /\ lastEvent.attrs.cy.unit = "pt"
  /\ _inHotspotsLayer(layer_hotspots)
  /\ HasRect(svg_rects, busy)
  /\ GetRect(svg_rects, busy).slice[2] = 100
  /\ GetRect(svg_rects, busy).hotspot = <<0, 0>>

----------------------------------------------------------------------------
(* Documents with more than one slices or hotspots layer *)

MaxLayers == 3

\* the rect arrow and the circle hotspot.arrow
ArrowRect ==
  [label |-> arrow, id |-> rect1, x |-> Coord(100, ""), y |-> Coord(100, ""),
   width |-> Coord(320, ""), height |-> Coord(320, "")]

ArrowCircle ==
  [label |-> hotspotPrefix \o arrow, id |-> rect1,
   cx |-> Coord(120, ""), cy |-> Coord(120, "")]

\* startElement('g', attrs) in a document of at most MaxLayers containers
StartLayer(attrs) ==
  /\ NumStarts(gHist) < MaxLayers
  /\ GroupStarts(attrs)

\* the slices layer, the hotspots layer and another layer
ReopenLayers == UnitLayers \cup {[groupmode |-> "layer", label |-> "cursors"]}

\* a traversal of up to MaxLayers layer containers
NextReopen ==
  \/ \E attrs \in ReopenLayers : StartLayer(attrs)
  \/ EndGroup
  \/ Rect(ArrowRect)
  \/ Circle(ArrowCircle)
  \/ EndDocument

SpecReopen == Init /\ [][NextReopen]_vars

\* C13: once a slices layer and a hotspots layer have closed, no later
\* event (container start or end, rectangle, circle, a further slices or
\* hotspots container) changes the name, position, size or hotspot_offset of
\* a Slice that is in the Geometry Model.
C13_ImmutableAfterBothClosed ==
  [][(SlicesLayerClosed /\ HotspotsLayerClosed) =>
       \A i \in 1..Len(svg_rects) :
          /\ i <= Len(svg_rects')
          /\ svg_rects'[i] = svg_rects[i]]_vars

----------------------------------------------------------------------------
(* The main program, lines 721-800 *)

\* the parser's fields other than warnings and lastEvent
parserState ==
  <<scale, layer_nests, layer_hotspots, translate, svg_rects, size, slices_hidden,
    hotspots_hidden, gHist, authored, rawHot, nMarkers>>

\* the rect busy with its x in mm
BadUnitRect ==
  [id |-> busy, x |-> Coord(500, "mm"), y |-> Coord(100, ""),
   width |-> Coord(320, ""), height |-> Coord(320, "")]

\* the command lines: --force, --clean, --out (no --name, --fps, --sizes)
OptionValues ==
  [force : BOOLEAN, clean : BOOLEAN, output_directory : {<<>>, <<"out">>}]

\* before line 729; the document has a <title> or not, the theme directory
\* exists already or not
InitMain ==
  /\ pc = "start"
  /\ ExtractInit
  /\ FrameIdle
  /\ fps = <<1666666, 100000>>
  /\ emitQueue = <<>>
  /\ files = <<>>
  /\ lastWrite = <<>>
  /\ options \in OptionValues
  /\ title \in {<<>>, <<"theme">>}
  /\ themeDir \in {"absent", "old"}
  /\ workDirs = FALSE
  /\ FilterIdle
  /\ RerunIdle

\* lines 729-731: the directories for the pngs and the config files
MakeWorkDirs ==
  /\ pc = "start"
  /\ workDirs' = TRUE
  /\ pc' = "parsing"
  /\ UNCHANGED <<extractVars, frameVars, emitVars, options, title, themeDir, filterVars, rerunVars>>

\* CheckSlices without the test of line 738
CheckSlicesAcceptsEmpty ==
  /\ pc = "done"
  /\ pc' = "parsed"
  /\ lastEvent' = [kind |-> "main", step |-> "check"]
  /\ UNCHANGED <<parserState, warnings, frameVars, emitVars, mainVars, filterVars, rerunVars>>

\* lines 738-741: no slices is a fatal error
CheckSlices ==
  /\ pc = "done"
  /\ pc' = IF Len(svg_rects) = 0 THEN "fatal" ELSE "parsed"
  /\ lastEvent' = [kind |-> "main", step |-> "check"]
  /\ UNCHANGED <<parserState, warnings, frameVars, emitVars, mainVars, filterVars, rerunVars>>

\* lines 744-763: the output directory and the theme name, both the title
\* when not given; the sanity warnings
ResolveOutput ==
  /\ pc = "parsed"
  /\ IF title = <<>>
     THEN /\ pc' = "fatal"
          /\ UNCHANGED warnings
     ELSE /\ pc' = "resolved"
          /\ warnings' = warnings + (IF slices_hidden THEN 0 ELSE 1)
                                  + (IF hotspots_hidden THEN 0 ELSE 1)
  /\ lastEvent' = [kind |-> "main", step |-> "resolve"]
  /\ UNCHANGED <<parserState, frameVars, emitVars, mainVars, filterVars, rerunVars>>

\* lines 766-771: --clean removes the three directories and exits; rmtree
\* raises FileNotFoundError for a directory that does not exist
CleanUp ==
  /\ pc = "resolved"
  /\ options.clean
  /\ IF themeDir = "old"
     THEN /\ themeDir' = "removed"
          /\ workDirs' = FALSE
          /\ pc' = "exit"
     ELSE /\ pc' = "crash"
          /\ UNCHANGED <<themeDir, workDirs>>
  /\ lastEvent' = [kind |-> "main", step |-> "clean"]
  /\ UNCHANGED <<parserState, warnings, frameVars, emitVars, options, title, filterVars, rerunVars>>

\* lines 774-785: --force removes an existing theme; an existing theme
\* directory is a fatal error; the theme directory is created
SetupOutput ==
  /\ pc = "resolved"
  /\ ~options.clean
  /\ LET forced == IF options.force /\ themeDir = "old" THEN "removed" ELSE themeDir
     IN  IF forced = "old"
         THEN /\ pc' = "fatal"
              /\ UNCHANGED themeDir
         ELSE /\ pc' = "render"
              /\ themeDir' = "new"
  /\ lastEvent' = [kind |-> "main", step |-> "setup"]
  /\ UNCHANGED <<parserState, warnings, frameVars, emitVars, options, title, workDirs,
                 filterVars, rerunVars>>

\* lines 788-797: the pngs are rendered and cropped
RenderPngs ==
  /\ pc = "render"
  /\ pc' = "main"
  /\ lastEvent' = [kind |-> "main", step |-> "render"]
  /\ UNCHANGED <<parserState, warnings, frameVars, emitVars, mainVars, filterVars, rerunVars>>

NextMain ==
  \/ MakeWorkDirs
  \/ \E attrs \in UnitLayers : StartGroup(attrs)
  \/ EndGroup
  \/ \E attrs \in {ArrowRect, BadUnitRect} : Rect(attrs)
  \/ Circle(ArrowCircle)
  \/ EndDocument
  \/ CheckSlices
  \/ ResolveOutput
  \/ CleanUp
  \/ SetupOutput
  \/ RenderPngs
  \/ StartEmit
  \/ writeCursorConfig
  \/ EmitDone

SpecMain == InitMain /\ [][NextMain]_vars

\* nothing of the theme output has been done: the theme directory is as it
\* was at the start and no cursor config file has been written
ThemeOutputUntouched ==
  /\ themeDir \in {"absent", "old"}
  /\ files = <<>>

\* C14: when extraction has ended with zero Slices, or a fatal condition
\* was raised while the Geometry Model was built, the run is aborted with
\* the theme directory neither created nor removed and no cursor config file
\* written; a run that has reached theme output has a Geometry Model with
\* at least one Slice.
C14_AbortBeforeThemeOutput ==
  /\ (pc = "fatal" /\ lastEvent.kind # "main") => ThemeOutputUntouched
  /\ Len(svg_rects) = 0 =>
        /\ pc \in {"start", "parsing", "done", "fatal", "crash"}
        /\ ThemeOutputUntouched
  /\ pc \in {"render", "main", "emit", "emitted"} => Len(svg_rects) > 0

\* C14 witness: a run with --force on a document without slices, with an
\* existing theme directory, has been aborted by the check of line 738; the
\* theme is still there
C14_Witness ==
  /\ pc = "fatal"
  /\ lastEvent = [kind |-> "main", step |-> "check"]
  /\ Len(svg_rects) = 0
  /\ options.force
  /\ themeDir = "old"
  /\ files = <<>>
  /\ workDirs

----------------------------------------------------------------------------
(* Parsing a document twice *)

MaxDocLen == 6

\* the events of the documents: the slices layer with translate(2,3), the
\* hotspots layer, </g>, the rects arrow and busy (x in mm), the circle
\* hotspot.arrow
DocEvents ==
  { [kind |-> "g", attrs |-> [groupmode |-> "layer", label |-> "slices",
                              style |-> <<"display:none">>,
                              transform |-> Translate(20, 30)]],
    [kind |-> "g", attrs |-> [groupmode |-> "layer", label |-> "hotspots",
                              style |-> <<"display:none">>]],
    [kind |-> "/g"],
    [kind |-> "rect", attrs |-> ArrowRect],
    [kind |-> "rect", attrs |-> BadUnitRect],
    [kind |-> "circle", attrs |-> ArrowCircle] }

\* number of events of kind k among the first n of d
CountKind(d, n, K) == Cardinality({i \in 1..n : d[i].kind \in K})

\* every </g> closes a <g>, every <g> is closed
WellFormed(d) ==
  /\ \A n \in 1..Len(d) : CountKind(d, n, {"/g"}) <= CountKind(d, n, {"g"})
  /\ CountKind(d, Len(d), {"/g"}) = CountKind(d, Len(d), {"g"})

Documents ==
  {d \in UNION {[1..n -> DocEvents] : n \in 0..MaxDocLen} :
     /\ WellFormed(d)
     /\ CountKind(d, Len(d), {"rect", "circle"}) <= MaxMarkers}

\* the place in the document of the event the parser reads next
NextPos == Len(gHist) + nMarkers + 1

InitTwice ==
  /\ pc = "parsing"
  /\ ExtractInit
  /\ FrameIdle
  /\ EmitIdle
  /\ MainIdle
  /\ FilterIdle
  /\ document \in Documents
  /\ firstRun = <<>>

\* the SAX parser delivers the next event of the document
ReadGroupStart ==
  /\ NextPos <= Len(document)
  /\ document[NextPos].kind = "g"
  /\ GroupStarts(document[NextPos].attrs)

ReadGroupEnd ==
  /\ NextPos <= Len(document)
  /\ document[NextPos].kind = "/g"
  /\ EndGroup

ReadRect ==
  /\ NextPos <= Len(document)
  /\ document[NextPos].kind = "rect"
  /\ Rect(document[NextPos].attrs)

ReadCircle ==
  /\ NextPos <= Len(document)
  /\ document[NextPos].kind = "circle"
  /\ Circle(document[NextPos].attrs)

ReadEndDocument ==
  /\ NextPos > Len(document)
  /\ EndDocument

\* a second SVGLayerHandler whose __init__ leaves the depth counters as the
\* first run left them
ConstructKeepsCounters ==
  /\ pc \in {"done", "fatal"}
  /\ firstRun = <<>>
  /\ firstRun' = <<[pc |-> pc, svg_rects |-> svg_rects, size |-> size]>>
  /\ pc' = "parsing"
  /\ scale' = <<1, 1>>
  /\ translate' = <<0, 0>>
  /\ svg_rects' = <<>>
  /\ size' = <<>>
  /\ slices_hidden' = FALSE
  /\ hotspots_hidden' = FALSE
  /\ warnings' = 0
  /\ gHist' = <<>>
  /\ authored' = <<>>
  /\ rawHot' = <<>>
  /\ lastEvent' = NoEvent
  /\ nMarkers' = 0
  /\ UNCHANGED <<layer_nests, layer_hotspots, frameVars, emitVars, mainVars, filterVars,
                 document>>

\* the first run has ended; a second SVGLayerHandler is constructed for the
\* same document: __init__, lines 304-320, assigns every field
Construct ==
  /\ pc \in {"done", "fatal"}
  /\ firstRun = <<>>
  /\ firstRun' = <<[pc |-> pc, svg_rects |-> svg_rects, size |-> size]>>
  /\ pc' = "parsing"
  /\ scale' = <<1, 1>>
  /\ layer_nests' = 0
  /\ layer_hotspots' = 0
  /\ translate' = <<0, 0>>
  /\ svg_rects' = <<>>
  /\ size' = <<>>
  /\ slices_hidden' = FALSE
  /\ hotspots_hidden' = FALSE
  /\ warnings' = 0
  /\ gHist' = <<>>
  /\ authored' = <<>>
  /\ rawHot' = <<>>
  /\ lastEvent' = NoEvent
  /\ nMarkers' = 0
  /\ UNCHANGED <<frameVars, emitVars, mainVars, filterVars, document>>

NextTwice ==
  \/ ReadGroupStart
  \/ ReadGroupEnd
  \/ ReadRect
  \/ ReadCircle
  \/ ReadEndDocument
  \/ Construct

SpecTwice == InitTwice /\ [][NextTwice]_vars

\* C15: the second extraction of a document starts with the depth counters
\* at 0, the translation (0,0) and an empty slice map, and ends as the first
\* did, with the same Slices in the Geometry Model: same names, positions,
\* sizes and hotspot offsets.
C15_SecondRunIdentical ==
  firstRun # <<>> =>
     /\ (pc = "parsing" /\ NextPos = 1) =>
           /\ layer_nests = 0
           /\ layer_hotspots = 0
           /\ translate = <<0, 0>>
           /\ svg_rects = <<>>
     /\ pc \in {"done", "fatal"} =>
           /\ pc = firstRun[1].pc
           /\ svg_rects = firstRun[1].svg_rects
           /\ size = firstRun[1].size

\* C15 witness: the second run of a document with arrow in the slices layer
\* and hotspot.arrow in the hotspots layer has ended with arrow moved by
\* (2,3) and its hotspot converted
C15_Witness ==
  /\ firstRun # <<>>
  /\ pc = "done"
  /\ Len(document) = 6
  /\ HasRect(svg_rects, arrow)
  /\ GetRect(svg_rects, arrow).slice = <<120, 130, 320, 320>>
  /\ GetRect(svg_rects, arrow).hotspot = <<-1, -11>>
  /\ firstRun[1].svg_rects = svg_rects

----------------------------------------------------------------------------
(* The depth counters *)

\* C16: a container end that leaves slices_depth at 1 or more (the close of
\* a container nested inside the slices layer) leaves the position of every
\* Slice unchanged: the translation is added only by the end that takes
\* slices_depth from 1 to 0.
C16_TranslationOnlyAtOuterClose ==
  [][(pc = "parsing" /\ lastEvent'.kind = "/g" /\ layer_nests >= 2) =>
       \A i \in 1..Len(svg_rects) : svg_rects'[i].slice = svg_rects[i].slice]_vars

\* C17: a container end that leaves hotspots_depth at 1 or more (the close
\* of a container nested inside the hotspots layer) leaves the hotspot of
\* every Slice unchanged: the conversion is made only by the end that takes
\* hotspots_depth from 1 to 0.
C17_ConversionOnlyAtOuterClose ==
  [][(pc = "parsing" /\ lastEvent'.kind = "/g" /\ layer_hotspots >= 2) =>
       \A i \in 1..Len(svg_rects) : svg_rects'[i].hotspot = svg_rects[i].hotspot]_vars

\* the number of open containers that are the outermost open container of
\* kind k or are nested inside it
OpenDepth(h, k) ==
  LET open == OpenGroups(h)
      I == {i \in 1..Len(open) : open[i].kind = k}
  IN  IF I = {} THEN 0
      ELSE Len(open) - (CHOOSE i \in I : \A j \in I : i <= j) + 1

\* C18: in every state of the traversal slices_depth is the number of open
\* containers that are the outermost slices-labelled container or nested
\* inside it, whatever their group mode or label, and hotspots_depth
\* likewise for the hotspots layer.
C18_DepthCountsOpenContainers ==
  pc = "parsing" =>
     /\ layer_nests = OpenDepth(gHist, "S")
     /\ layer_hotspots = OpenDepth(gHist, "H")

----------------------------------------------------------------------------
(* SVGFilter: the rewrite of the document that is rendered *)

MaxElements == 2

MaxChunks == 1

\* An attribute value is the sequence of the pieces str.split(';') gives.
\* A piece is [lead, prop, val]: the text prop, or prop:val when val is not
\* empty, after a blank when lead is TRUE.
Piece(lead, prop, val) == [lead |-> lead, prop |-> prop, val |-> val]

\* the piece of length 0
EmptyPiece == Piece(FALSE, "", "")

\* a value without ';'
Str(t) == <<Piece(FALSE, t, "")>>

\* piece.startswith(name + ':')
StartsWithProperty(piece, name) == ~piece.lead /\ piece.prop = name /\ piece.val # ""

\* 'url(#{})'.format(id)
Url(id) ==
  CASE id = "ds" -> "url(#ds)"
    [] id = "blur" -> "url(#blur)"

\* modify_style of lines 638-648; None is <<>>, old_style and new_style one
\* element otherwise
modify_style(style, old_style, new_style) ==
  LET Keep(piece) ==
        /\ piece # EmptyPiece
        /\ (old_style = <<>> \/ ~StartsWithProperty(piece, old_style[1]))
      new_styles == SelectSeq(style, Keep) \o new_style
  IN  IF new_styles = <<>> THEN <<EmptyPiece>> ELSE new_styles

\* lines 656-669: what the label of a g element makes it
LabelIs(localname, attrs, label) ==
  /\ localname = "g"
  /\ HasAttr(attrs, "label")
  /\ attrs.label = Str(label)

\* 'shadows,' in self.mode and self._dropshadow_id
Wired(fmode, id) == "shadows," \in fmode /\ id # <<>> /\ id # <<"">>

\* lines 670-675: a filter element labelled Drop Shadow gives its id
DropShadowId(localname, attrs, id) ==
  IF /\ localname = "filter"
     /\ HasAttr(attrs, "label")
     /\ attrs.label = Str("Drop Shadow")
     /\ HasAttr(attrs, "id")
  THEN <<attrs.id[1].prop>>
  ELSE id

\* lines 680-700: the value written for attribute key
RewrittenValue(localname, attrs, key, value, fmode, id) ==
  LET is_slices == LabelIs(localname, attrs, "slices")
      is_hotspots == LabelIs(localname, attrs, "hotspots")
      is_shadows == LabelIs(localname, attrs, "shadow")
      v1 == IF key = "style" /\ is_slices
            THEN modify_style(value, <<"display">>, <<Piece(FALSE, "display", "none")>>)
            ELSE value
      v2 == IF key = "style" /\ is_hotspots
            THEN IF "hotspots," \in fmode
                 THEN modify_style(v1, <<"display">>, <<Piece(FALSE, "display", "inline")>>)
                 ELSE modify_style(v1, <<"display">>, <<Piece(FALSE, "display", "none")>>)
            ELSE v1
      v3 == IF is_shadows /\ key = "filter"
            THEN IF Wired(fmode, id) THEN Str(Url(id[1])) ELSE <<EmptyPiece>>
            ELSE IF is_shadows /\ key = "style"
            THEN IF Wired(fmode, id)
                 THEN modify_style(v2, <<"filter">>, <<Piece(FALSE, "filter", Url(id[1]))>>)
                 ELSE modify_style(v2, <<"filter">>, <<>>)
            ELSE v2
  IN  modify_style(v3, <<"shape-rendering">>, <<>>)

\* lines 676-702: new_attrs
RewrittenAttrs(localname, attrs, fmode, id) ==
  LET idict == IF HasAttr(attrs, "style") THEN attrs
               ELSE attrs @@ ("style" :> <<EmptyPiece>>)
      value(key) == RewrittenValue(localname, attrs, key, idict[key], fmode, id)
  IN  [key \in {k \in DOMAIN idict : value(k) # <<EmptyPiece>>} |-> value(key)]

\* the style attributes the documents carry
StyleValues ==
  { <<EmptyPiece>>,
    <<Piece(FALSE, "display", "inline")>>,
    <<Piece(FALSE, "display", "inline"), Piece(FALSE, "display", "block")>>,
    <<Piece(FALSE, "fill", "red"), Piece(TRUE, "display", "inline")>>,
    <<Piece(FALSE, "fill", "red"), Piece(FALSE, "shape-rendering", "auto")>>,
    <<Piece(FALSE, "fill", "red"), Piece(TRUE, "shape-rendering", "auto")>>,
    <<Piece(FALSE, "opacity", "1"), Piece(FALSE, "filter", Url("blur"))>>,
    <<Piece(FALSE, "opacity", "1"), Piece(TRUE, "filter", Url("blur"))>>,
    <<Piece(FALSE, "fill", "red"), EmptyPiece>> }

\* the attribute sets of the g elements
ContainerAttrs ==
  LET labels == {"slices", "hotspots", "shadow", "cursors"}
  IN  {[label |-> Str(l)] : l \in labels}
        \cup {[label |-> Str(l), style |-> st] : l \in labels, st \in StyleValues}
        \cup { [label |-> Str("shadow"), filter |-> Str(Url("blur"))],
               [groupmode |-> Str("layer")] }

\* the attribute sets of the filter elements
FilterAttrs ==
  { [label |-> Str("Drop Shadow"), id |-> Str("ds")],
    [label |-> Str("Drop Shadow")],
    [label |-> Str("Blur"), id |-> Str("blur")],
    [id |-> Str("blur")] }

\* the attribute sets of the rect elements
ShapeAttrs ==
  {[id |-> Str("r"), style |-> st] : st \in StyleValues}
    \cup { [id |-> Str("r")],
           [id |-> Str("r"), label |-> <<EmptyPiece>>] }

\* the start tags the parser hands to the filter
Elements ==
  {[localname |-> "g", attrs |-> a] : a \in ContainerAttrs}
    \cup {[localname |-> "filter", attrs |-> a] : a \in FilterAttrs}
    \cup {[localname |-> "rect", attrs |-> a] : a \in ShapeAttrs}

\* SVGFilter.__init__ and startDocument; _filter_svg passes '' or 'shadows,'
InitFilter ==
  /\ pc = "filtering"
  /\ ExtractInit
  /\ FrameIdle
  /\ EmitIdle
  /\ MainIdle
  /\ RerunIdle
  /\ filterMode \in SUBSET {"shadows,", "hotspots,"}
  /\ dropshadow_id = <<>>
  /\ in_throwaway_layer_stack = <<FALSE>>
  /\ downstream = <<>>
  /\ filterWarnings = 0
  /\ filterIn = [n |-> 0, open |-> <<>>, last |-> <<>>, defs |-> <<>>,
                 read |-> <<>>, passed |-> <<>>]

FilterUnchanged == UNCHANGED <<pc, extractVars, frameVars, emitVars, mainVars, rerunVars>>

\* an event as filterIn.read and filterIn.passed keep it
Brief(event, localname) == [event |-> event, localname |-> localname]

\* an insert that leaves the list as it is
InsertNothing(stack, flag) == stack

\* list.insert(0, flag)
Insert(stack, flag) == <<flag>> \o stack

\* SVGFilter.startElement; downstream holds the last event handed on
startElement(el) ==
  LET localname == el.localname
      attrs == el.attrs
      id == DropShadowId(localname, attrs, dropshadow_id)
      defines == localname = "filter" /\ id # dropshadow_id
      warns == /\ LabelIs(localname, attrs, "shadow")
               /\ "shadows," \in filterMode
               /\ ~Wired(filterMode, dropshadow_id)
  IN  /\ pc = "filtering"
      /\ filterIn.n < MaxElements
      /\ filterIn' = [n |-> filterIn.n + 1,
                      open |-> <<localname>> \o filterIn.open,
                      last |-> <<el>>,
                      defs |-> IF /\ localname = "filter"
                                  /\ HasAttr(attrs, "label")
                                  /\ attrs.label = Str("Drop Shadow")
                                  /\ HasAttr(attrs, "id")
                               THEN Append(filterIn.defs, attrs.id[1].prop)
                               ELSE filterIn.defs,
                      read |-> Append(filterIn.read, Brief("startElement", localname)),
                      passed |-> IF in_throwaway_layer_stack[1] THEN filterIn.passed
                                 ELSE Append(filterIn.passed, Brief("startElement", localname))]
      /\ filterWarnings' = IF warns THEN filterWarnings + 1 ELSE filterWarnings
      /\ dropshadow_id' = id
      /\ IF in_throwaway_layer_stack[1]
         THEN /\ in_throwaway_layer_stack' = Insert(in_throwaway_layer_stack, TRUE)
              /\ UNCHANGED downstream
         ELSE /\ in_throwaway_layer_stack' = Insert(in_throwaway_layer_stack, FALSE)
              /\ downstream' = <<[event |-> "startElement", localname |-> localname,
                                  attrs |-> RewrittenAttrs(localname, attrs, filterMode, id)]>>
      /\ UNCHANGED filterMode
      /\ FilterUnchanged

\* SVGFilter.characters
characters ==
  /\ pc = "filtering"
  /\ filterIn.n > 0
  /\ Cardinality({i \in DOMAIN filterIn.read : filterIn.read[i].event = "characters"}) < MaxChunks
  /\ IF in_throwaway_layer_stack[1]
     THEN UNCHANGED downstream
     ELSE downstream' = <<[event |-> "characters"]>>
  /\ filterIn' = [filterIn EXCEPT
                    !.read = Append(@, Brief("characters", "")),
                    !.passed = IF in_throwaway_layer_stack[1] THEN @
                               ELSE Append(@, Brief("characters", ""))]
  /\ UNCHANGED <<filterMode, dropshadow_id, in_throwaway_layer_stack, filterWarnings>>
  /\ FilterUnchanged

\* SVGFilter.endElement
endElement ==
  /\ pc = "filtering"
  /\ filterIn.open # <<>>
  /\ in_throwaway_layer_stack' = Tail(in_throwaway_layer_stack)
  /\ IF in_throwaway_layer_stack[1]
     THEN UNCHANGED downstream
     ELSE downstream' = <<[event |-> "endElement", localname |-> filterIn.open[1]]>>
  /\ filterIn' = [filterIn EXCEPT
                    !.open = Tail(@),
                    !.read = Append(@, Brief("endElement", filterIn.open[1])),
                    !.passed = IF in_throwaway_layer_stack[1] THEN @
                               ELSE Append(@, Brief("endElement", filterIn.open[1]))]
  /\ UNCHANGED <<filterMode, dropshadow_id, filterWarnings>>
  /\ FilterUnchanged

NextFilter ==
  \/ \E el \in Elements : startElement(el)
  \/ characters
  \/ endElement

SpecFilter == InitFilter /\ [][NextFilter]_vars

\* the filter references an attribute set carries: its filter attribute and
\* the filter properties of its style
FilterRefs(attrs) ==
  (IF HasAttr(attrs, "filter") THEN {attrs.filter[1].prop} ELSE {})
    \cup (IF HasAttr(attrs, "style")
          THEN {attrs.style[i].val : i \in {j \in DOMAIN attrs.style : attrs.style[j].prop = "filter"}}
          ELSE {})

\* C19: a shadow container handed on carries the reference to the Drop Shadow
\* filter exactly when shadow rendering is enabled and a filter labelled
\* Drop Shadow was defined earlier; in every other case it carries no filter
\* reference; the warning is issued only when shadow rendering is enabled and
\* the container is not wired.
C19_ShadowWiring ==
  [][(/\ filterIn'.n = filterIn.n + 1
      /\ LabelIs(filterIn'.last[1].localname, filterIn'.last[1].attrs, "shadow"))
     => LET out == downstream'[1].attrs
            enabled == "shadows," \in filterMode
            earlier == filterIn.defs # <<>>
        IN  /\ downstream'[1].event = "startElement"
            /\ IF enabled /\ earlier
               THEN Url(filterIn.defs[Len(filterIn.defs)]) \in FilterRefs(out)
               ELSE FilterRefs(out) = {}
            /\ filterWarnings' # filterWarnings => (enabled /\ ~earlier)]_vars

\* the values of property name in a style, whatever blank precedes them
PropertyValues(attrs, name) ==
  IF HasAttr(attrs, "style")
  THEN [i \in {j \in DOMAIN attrs.style : attrs.style[j].prop = name} |-> attrs.style[i].val]
  ELSE <<>>

\* an attribute set with the shape-rendering properties taken out of its style
WithoutShapeRendering(attrs) ==
  LET Other(piece) == piece.prop # "shape-rendering"
  IN  [k \in DOMAIN attrs |-> IF k = "style" THEN SelectSeq(attrs[k], Other) ELSE attrs[k]]

\* C20: the style of a container handed on has no shape-rendering property;
\* a slices container has exactly one display property, none; a hotspots
\* container has exactly one, inline in hotspot-preview mode and none
\* otherwise; every other element keeps its attributes apart from the
\* shape-rendering properties.
C20_StyleRewrite ==
  [][filterIn'.n = filterIn.n + 1
     => LET el == filterIn'.last[1]
            out == downstream'[1].attrs
            display == PropertyValues(out, "display")
            IsOne(v) == \E i \in DOMAIN display : DOMAIN display = {i} /\ display[i] = v
        IN  /\ downstream'[1].event = "startElement"
            /\ el.localname = "g" => DOMAIN PropertyValues(out, "shape-rendering") = {}
            /\ LabelIs(el.localname, el.attrs, "slices") => IsOne("none")
            /\ LabelIs(el.localname, el.attrs, "hotspots")
                 => IsOne(IF "hotspots," \in filterMode THEN "inline" ELSE "none")
            /\ (\A l \in {"slices", "hotspots", "shadow"} : ~LabelIs(el.localname, el.attrs, l))
                 => out = WithoutShapeRendering(el.attrs)]_vars

\* the elements a stream of events leaves open, innermost first; an end
\* event that does not close the innermost open element leaves "mismatch"
RECURSIVE OpenNames(_)
OpenNames(events) ==
  IF events = <<>> THEN <<>>
  ELSE LET before == OpenNames(SubSeq(events, 1, Len(events) - 1))
           e == events[Len(events)]
       IN  CASE e.event = "startElement" -> <<e.localname>> \o before
             [] e.event = "characters" -> before
             [] e.event = "endElement" ->
                  IF before # <<>> /\ before[1] = e.localname
                  THEN Tail(before)
                  ELSE <<"mismatch">> \o before

\* C21: the suppression stack holds one entry per open element plus the
\* initial FALSE; below a suppressed entry every entry is suppressed; the
\* events handed on are well nested and leave open what the input leaves
\* open; nothing triggers suppression, so the events handed on are the
\* events read, each once and in document order.
C21_StreamWellNested ==
  pc = "filtering" =>
    /\ Len(in_throwaway_layer_stack) = Len(filterIn.open) + 1
    /\ in_throwaway_layer_stack[Len(in_throwaway_layer_stack)] = FALSE
    /\ \A i, j \in DOMAIN in_throwaway_layer_stack :
          (i < j /\ in_throwaway_layer_stack[j]) => in_throwaway_layer_stack[i]
    /\ OpenNames(filterIn.passed) = filterIn.open
    /\ filterIn.passed = filterIn.read

\* C21 witness: a nested element with character data was read and closed
C21_Witness ==
  /\ pc = "filtering"
  /\ filterIn.open = <<>>
  /\ \E i \in DOMAIN filterIn.read :
        /\ i + 1 \in DOMAIN filterIn.read
        /\ filterIn.read[i].event = "startElement"
        /\ filterIn.read[i + 1].event = "startElement"
  /\ \E i \in DOMAIN filterIn.passed : filterIn.passed[i].event = "characters"
  /\ filterIn.passed = filterIn.read

\* C22: the start of a container that is labelled neither slices nor hotspots
\* and lies in neither layer raises no error and leaves both depth counters,
\* the translation, both hidden flags and the slices unchanged, a layer
\* without label included.
C22_OtherContainerIgnored ==
  [][(/\ pc = "parsing"
      /\ Len(gHist') = Len(gHist) + 1
      /\ gHist'[Len(gHist')].kind \in {"P", "L"}
      /\ layer_nests = 0 /\ layer_hotspots = 0
      /\ OpenDepth(gHist, "S") = 0 /\ OpenDepth(gHist, "H") = 0)
     => /\ pc' = "parsing"
        /\ UNCHANGED <<layer_nests, layer_hotspots, translate, slices_hidden,
                       hotspots_hidden, svg_rects, size>>]_vars

\* C23: the two depth counters are never negative, and both are 0 when the
\* document has been read to its end, whatever layers and plain groups it
\* nests.
C23_DepthsNeverNegative ==
  /\ layer_nests >= 0
  /\ layer_hotspots >= 0
  /\ pc = "done" => (layer_nests = 0 /\ layer_hotspots = 0)

\* C23 witness: a document with a plain group inside a labelled layer has
\* been read to its end
C23_Witness ==
  /\ pc = "done"
  /\ Len(gHist) = 4
  /\ gHist[1].kind \in {"S", "H"}
  /\ gHist[2].kind = "P"
  /\ gHist[3].kind = "E"

\* C24: the two depth counters are never both positive, and no container end
\* decrements both.
C24_DepthsExclusive ==
  [][/\ ~(layer_nests > 0 /\ layer_hotspots > 0)
     /\ ~(layer_nests' < layer_nests /\ layer_hotspots' < layer_hotspots)]_vars

\* C25: when every slice has been emitted in ascending name order into an
\* empty directory, the file of each slice's base name holds that slice's
\* lines.
C25_NoLinesLost ==
  pc = "emitted" =>
     \A i \in 1..Len(svg_rects) :
        LET b == BaseOf(svg_rects[i])
            lines == ConfigLines(svg_rects[i], fps)
        IN  /\ b \in DOMAIN files
            /\ \E k \in 0..(Len(files[b]) - Len(lines)) :
                  SubSeq(files[b], k + 1, k + Len(lines)) = lines

====
